---- MODULE Spec2Model ----
(***************************************************************************)
(* Model of the todo editor's editing state machine (src/main.rs): the     *)
(* App struct, its methods, and the key dispatch of run_app.               *)
(*                                                                         *)
(* A String is modelled as the sequence of its UTF-8 bytes, so that byte   *)
(* offsets, String::insert and String::remove behave as in Rust (they      *)
(* panic on an offset that is out of range or not a char boundary).        *)
(* Vec indices are 0-based in the code and 1-based here: v[i] in the code  *)
(* is v[i + 1] in the model.                                               *)
(***************************************************************************)
EXTENDS Integers, Sequences, FiniteSets

VARIABLES
    input, input_mode, target_mode, messages, long_term_todo,
    target_row, target_column,   \* the fields of App
    key,                         \* the key code of the last event read
    run,                         \* "starting", "running", "quit",
                                 \* "setup_error" or "panicked"
    boot,                        \* how far main has come before run_app
    typed                        \* history: the characters typed in a scenario

vars == <<input, input_mode, target_mode, messages, long_term_todo,
          target_row, target_column, key, run, boot, typed>>

(* ---------------------------- bounds ----------------------------------- *)

\* Spec: most text bytes, summed over all entries of both lists, that the
\* user may type, and most entries, summed over both lists, that Enter may
\* create
MaxBytes == 2
MaxEntries == 3

\* SpecRows: the same two limits, with longer lists and shorter texts
RowsMaxBytes == 1
RowsMaxEntries == 4

(* ---------------------------- strings ---------------------------------- *)

\* the characters typed in Editing mode: a letter that is a command in
\* Normal mode, and a two-byte character
Chars == {"t", "e_acute"}

\* char::encode_utf8
Utf8(c) == IF c = "e_acute" THEN <<"C3", "A9">> ELSE <<c>>

\* a UTF-8 continuation byte (0b10xxxxxx)
IsContinuation(b) == b = "A9"

\* str::is_char_boundary
is_char_boundary(s, idx) ==
    \/ idx = 0
    \/ idx = Len(s)
    \/ (idx > 0 /\ idx < Len(s) /\ ~IsContinuation(s[idx + 1]))

\* number of bytes of the char that starts at byte offset idx
CharWidthAt(s, idx) == IF s[idx + 1] = "C3" THEN 2 ELSE 1

\* String::insert(idx, ch), defined when is_char_boundary(s, idx)
StrInsert(s, idx, c) ==
    SubSeq(s, 1, idx) \o Utf8(c) \o SubSeq(s, idx + 1, Len(s))

\* String::insert panics unless idx is a char boundary
StrInsertPanics(s, idx) == ~is_char_boundary(s, idx)

\* String::remove(idx) panics unless a char starts at idx
StrRemovePanics(s, idx) == ~is_char_boundary(s, idx) \/ idx >= Len(s)

\* String::remove(idx): removes the whole char that starts at idx
StrRemove(s, idx) ==
    SubSeq(s, 1, idx) \o SubSeq(s, idx + CharWidthAt(s, idx) + 1, Len(s))

(* ---------------------------- data ------------------------------------- *)

\* TodoData::default, and the literal built in new_line / remove_message
TodoDataDefault == [message |-> <<>>, status |-> "Todo"]

\* the App struct as a record; panic is TRUE once a method has panicked
App == [input |-> input, input_mode |-> input_mode,
        target_mode |-> target_mode, messages |-> messages,
        long_term_todo |-> long_term_todo, target_row |-> target_row,
        target_column |-> target_column, panic |-> FALSE]

\* a Vec index i (an i32 cast to usize) is in range
InRange(v, i) == i >= 0 /\ i < Len(v)

Panic(a) == [a EXCEPT !.panic = TRUE]

Max(x, y) == IF x >= y THEN x ELSE y

\* num::clamp
clamp(x, lo, hi) == IF x < lo THEN lo ELSE IF x > hi THEN hi ELSE x

(* ---------------------------- App methods ------------------------------ *)

get_messages(a) ==
    IF a.target_mode = "Daily" THEN a.messages ELSE a.long_term_todo

\* faulty variant: the reference always points at the daily list
get_messages_mut_daily(a, list) == [a EXCEPT !.messages = list]

\* a write of the whole list through the reference get_messages_mut returns
get_messages_mut(a, list) ==
    IF a.target_mode = "Daily"
    THEN [a EXCEPT !.messages = list]
    ELSE [a EXCEPT !.long_term_todo = list]

get_current_message(a) == get_messages(a)[a.target_row + 1].message

push_message(a, new_entry) ==
    LET b == [a EXCEPT !.input = <<>>]
    IN get_messages_mut(b, Append(get_messages(b), new_entry))

\* faulty variant: the edited entry is written back as a Todo entry
add_char_todo(a, new_char) ==
    IF a.panic THEN a
    ELSE IF StrInsertPanics(a.input, a.target_column) THEN Panic(a)
    ELSE LET b == [a EXCEPT !.input = StrInsert(a.input, a.target_column, new_char)]
         IN IF ~InRange(get_messages(b), b.target_row) THEN Panic(b)
            ELSE [get_messages_mut(b, [get_messages(b) EXCEPT
                                          ![b.target_row + 1] =
                                             [message |-> b.input, status |-> "Todo"]])
                    EXCEPT !.target_column = @ + 1]

\* faulty variant: the column is not advanced
add_char_nocolumn(a, new_char) ==
    IF a.panic THEN a
    ELSE IF StrInsertPanics(a.input, a.target_column) THEN Panic(a)
    ELSE LET b == [a EXCEPT !.input = StrInsert(a.input, a.target_column, new_char)]
         IN IF ~InRange(get_messages(b), b.target_row) THEN Panic(b)
            ELSE get_messages_mut(b, [get_messages(b) EXCEPT
                                         ![b.target_row + 1].message = b.input])

add_char(a, new_char) ==
    IF a.panic THEN a
    ELSE IF StrInsertPanics(a.input, a.target_column) THEN Panic(a)
    ELSE LET b == [a EXCEPT !.input = StrInsert(a.input, a.target_column, new_char)]
         IN IF ~InRange(get_messages(b), b.target_row) THEN Panic(b)
            ELSE [get_messages_mut(b, [get_messages(b) EXCEPT
                                          ![b.target_row + 1].message = b.input])
                    EXCEPT !.target_column = @ + 1]

remove_char(a) ==
    IF a.panic THEN a
    ELSE IF a.input = <<>> THEN a
    ELSE IF a.target_column <= 0 THEN a
    ELSE IF StrRemovePanics(a.input, a.target_column - 1) THEN Panic(a)
    ELSE LET b == [a EXCEPT !.input = StrRemove(a.input, a.target_column - 1)]
         IN IF ~InRange(get_messages(b), b.target_row) THEN Panic(b)
            ELSE [get_messages_mut(b, [get_messages(b) EXCEPT
                                          ![b.target_row + 1].message = b.input])
                    EXCEPT !.target_column = @ - 1]

\* faulty variant: the row is not clamped
clamp_row_noop(a) == a

clamp_row(a) ==
    [a EXCEPT !.target_row = clamp(a.target_row, 0, Len(get_messages(a)) - 1)]

\* faulty variant: the column is clamped to the text length
clamp_column_full(a) ==
    IF a.panic THEN a
    ELSE IF ~InRange(get_messages(a), a.target_row) THEN Panic(a)
    ELSE [a EXCEPT !.target_column = clamp(a.target_column, 0, Len(get_current_message(a)))]

clamp_column(a) ==
    IF a.panic THEN a
    ELSE IF ~InRange(get_messages(a), a.target_row) THEN Panic(a)
    ELSE LET current_message_length == Max(Len(get_current_message(a)) - 1, 0)
         IN [a EXCEPT !.target_column = clamp(a.target_column, 0, current_message_length)]

\* the two-line tail shared by move_cursor, new_line and change_target_mode:
\* self.input = cur_messages[self.target_row as usize].message.clone()
reload_input(a) ==
    IF a.panic THEN a
    ELSE IF ~InRange(get_messages(a), a.target_row) THEN Panic(a)
    ELSE [a EXCEPT !.input = get_current_message(a)]

MoveCursorOperation == {"Right", "Left", "Up", "Down"}

\* faulty variant: the column is not clamped after the move
move_cursor_noclamp(a, move_operation) ==
    IF a.panic THEN a
    ELSE LET b == CASE move_operation = "Down"  -> [a EXCEPT !.target_row = @ + 1]
                    [] move_operation = "Up"    -> [a EXCEPT !.target_row = @ - 1]
                    [] move_operation = "Left"  -> [a EXCEPT !.target_column = @ - 1]
                    [] move_operation = "Right" -> [a EXCEPT !.target_column = @ + 1]
         IN reload_input(clamp_row(b))

move_cursor(a, move_operation) ==
    IF a.panic THEN a
    ELSE LET b == CASE move_operation = "Down"  -> [a EXCEPT !.target_row = @ + 1]
                    [] move_operation = "Up"    -> [a EXCEPT !.target_row = @ - 1]
                    [] move_operation = "Left"  -> [a EXCEPT !.target_column = @ - 1]
                    [] move_operation = "Right" -> [a EXCEPT !.target_column = @ + 1]
         IN reload_input(clamp_column(clamp_row(b)))

\* faulty variant: a new entry is pushed wherever the row is
new_line_alwayspush(a) ==
    IF a.panic THEN a
    ELSE LET b == [push_message(a, TodoDataDefault) EXCEPT
                      !.target_row = @ + 1, !.target_column = 0]
             c == reload_input(b)
         IN IF c.panic THEN c ELSE [c EXCEPT !.input_mode = "Normal"]

new_line(a) ==
    IF a.panic THEN a
    ELSE LET prev_messages == get_messages(a)
             b == IF a.target_row < 0 \/ a.target_row >= Len(prev_messages) - 1
                  THEN [push_message(a, TodoDataDefault) EXCEPT
                           !.target_row = @ + 1, !.target_column = 0]
                  ELSE a
             c == reload_input(b)
         IN IF c.panic THEN c ELSE [c EXCEPT !.input_mode = "Normal"]

\* faulty variant: the edit buffer is not reloaded
change_target_mode_noreload(a) ==
    IF a.panic THEN a
    ELSE IF a.target_mode = "Daily"
         THEN [a EXCEPT !.target_mode = "LongTerm", !.target_row = 0]
         ELSE [a EXCEPT !.target_mode = "Daily", !.target_row = 0]

\* faulty variant: the row is not reset
change_target_mode_keeprow(a) ==
    IF a.panic THEN a
    ELSE LET b == IF a.target_mode = "Daily"
                  THEN [a EXCEPT !.target_mode = "LongTerm"]
                  ELSE [a EXCEPT !.target_mode = "Daily"]
         IN reload_input(b)

change_target_mode(a) ==
    IF a.panic THEN a
    ELSE LET b == IF a.target_mode = "Daily"
                  THEN [a EXCEPT !.target_mode = "LongTerm", !.target_row = 0]
                  ELSE [a EXCEPT !.target_mode = "Daily", !.target_row = 0]
         IN reload_input(b)

\* faulty variant: Vec::pop instead of Vec::remove(index)
VecRemove_pop(v, i) == SubSeq(v, 1, Len(v) - 1)

\* Vec::remove(index)
VecRemove(v, i) == SubSeq(v, 1, i) \o SubSeq(v, i + 2, Len(v))

\* faulty variant: an emptied list is not refilled
remove_message_norefill(a) ==
    IF a.panic THEN a
    ELSE IF ~InRange(get_messages(a), a.target_row) THEN Panic(a)
    ELSE move_cursor(get_messages_mut(a, VecRemove(get_messages(a), a.target_row)), "Up")

remove_message(a) ==
    IF a.panic THEN a
    ELSE IF ~InRange(get_messages(a), a.target_row) THEN Panic(a)
    ELSE LET cur_messages == VecRemove(get_messages(a), a.target_row)
             b == get_messages_mut(a, cur_messages)
             c == IF cur_messages = <<>> THEN push_message(b, TodoDataDefault) ELSE b
         IN move_cursor(c, "Up")

\* faulty variant: the status of the first entry is set
set_message_status_first(a, new_status) ==
    IF a.panic THEN a
    ELSE IF ~InRange(get_messages(a), 0) THEN Panic(a)
    ELSE get_messages_mut(a, [get_messages(a) EXCEPT ![1].status = new_status])

set_message_status(a, new_status) ==
    IF a.panic THEN a
    ELSE IF ~InRange(get_messages(a), a.target_row) THEN Panic(a)
    ELSE get_messages_mut(a, [get_messages(a) EXCEPT
                                 ![a.target_row + 1].status = new_status])

(* ---------------------------- run_app ---------------------------------- *)

RECURSIVE SumLen(_)
\* text bytes held by a list
SumLen(v) == IF v = <<>> THEN 0 ELSE Len(Head(v).message) + SumLen(Tail(v))

TotalBytes == SumLen(messages) + SumLen(long_term_todo)
TotalEntries == Len(messages) + Len(long_term_todo)

\* KeyCode::Char(c)
Char(c) == <<"Char", c>>

\* a KeyCode variant without payload: Enter, Backspace, Esc, Tab, Up, ...
Key(code) == <<code, "">>

\* the value of key before the first event is read
NoKey == <<"None", "">>

\* App::default, before the first event is read
Init ==
    /\ input = <<>>
    /\ input_mode = "Normal"
    /\ target_mode = "Daily"
    /\ messages = <<TodoDataDefault>>
    /\ long_term_todo = <<TodoDataDefault>>
    /\ target_row = 0
    /\ target_column = 0
    /\ key = NoKey
    /\ typed = <<>>
    /\ run = "running"
    /\ boot = "session"

\* the key codes the model delivers that no arm of the Normal match names
NormalUnbound == {Char("e_acute"), Key("Backspace")}

\* the key codes the model delivers that no arm of the Editing match names
EditingUnbound == {Key("Tab")}

\* one iteration of the loop: event::read returned the key code k and the
\* matching arm turned the App into b.  A panic aborts the process: run
\* becomes "panicked" and the App stays as it was when the panic hit.
StepApp(k, b) ==
    /\ key' = k
    /\ input' = b.input
    /\ input_mode' = b.input_mode
    /\ target_mode' = b.target_mode
    /\ messages' = b.messages
    /\ long_term_todo' = b.long_term_todo
    /\ target_row' = b.target_row
    /\ target_column' = b.target_column
    /\ run' = IF b.panic THEN "panicked" ELSE run

Step(k, b) == StepApp(k, b) /\ UNCHANGED <<boot, typed>>

Normal == run = "running" /\ input_mode = "Normal"
Editing == run = "running" /\ input_mode = "Editing"

\* KeyCode::Char('e') in Normal mode
NormalKeyE == Normal /\ Step(Char("e"), [App EXCEPT !.input_mode = "Editing"])

\* KeyCode::Char('q') in Normal mode: return Ok(())
NormalKeyQ ==
    /\ Normal
    /\ key' = Char("q")
    /\ run' = "quit"
    /\ UNCHANGED <<input, input_mode, target_mode, messages,
                   long_term_todo, target_row, target_column, boot, typed>>

\* KeyCode::Char('t') in Normal mode
NormalKeyT == Normal /\ Step(Char("t"), change_target_mode(App))

\* KeyCode::Char('r') in Normal mode
NormalKeyR == Normal /\ Step(Char("r"), remove_message(App))

\* KeyCode::Char('d') in Normal mode
NormalKeyD == Normal /\ Step(Char("d"), set_message_status(App, "Done"))

\* KeyCode::Up / Down / Left / Right in Normal mode
NormalArrow(op) == Normal /\ Step(Key(op), move_cursor(App, op))

\* faulty variant: a character key that is no command is typed into the
\* entry in Normal mode too
NormalOther_typed(k) ==
    Normal /\ Step(k, IF k[1] = "Char" THEN add_char(App, k[2]) ELSE App)

\* any other key in Normal mode (the `_ => {}` arm)
NormalOther(k) == Normal /\ Step(k, App)

\* KeyCode::Enter in Editing mode; the model stops the lists growing past
\* maxEntries entries
EditEnterUpTo(maxEntries) ==
    /\ Editing
    /\ (target_row >= Len(get_messages(App)) - 1 => TotalEntries < maxEntries)
    /\ Step(Key("Enter"), new_line(App))

\* faulty variant: the switch-list key is bound in Editing mode too
EditCharUpTo_switch(c, maxBytes) ==
    /\ Editing
    /\ (StrInsertPanics(input, target_column) \/ TotalBytes + Len(Utf8(c)) <= maxBytes)
    /\ Step(Char(c), IF c = "t" THEN change_target_mode(App) ELSE add_char(App, c))

\* KeyCode::Char(c) in Editing mode; the model stops the texts growing past
\* maxBytes bytes (an insertion that panics grows nothing)
EditCharUpTo(c, maxBytes) ==
    /\ Editing
    /\ (StrInsertPanics(input, target_column) \/ TotalBytes + Len(Utf8(c)) <= maxBytes)
    /\ Step(Char(c), add_char(App, c))

EditEnter == EditEnterUpTo(MaxEntries)
EditChar(c) == EditCharUpTo(c, MaxBytes)

\* KeyCode::Backspace in Editing mode
EditBackspace == Editing /\ Step(Key("Backspace"), remove_char(App))

\* faulty variant: Escape also puts the cursor at the start of the text
EditEsc_home ==
    Editing /\ Step(Key("Esc"), [App EXCEPT !.input_mode = "Normal",
                                            !.target_column = 0])

\* KeyCode::Esc in Editing mode
EditEsc == Editing /\ Step(Key("Esc"), [App EXCEPT !.input_mode = "Normal"])

\* KeyCode::Up / Down / Left / Right in Editing mode
EditArrow(op) == Editing /\ Step(Key(op), move_cursor(App, op))

\* any other key in Editing mode (the `_ => {}` arm)
EditOther(k) == Editing /\ Step(k, App)

Next ==
    \/ NormalKeyE
    \/ NormalKeyQ
    \/ NormalKeyT
    \/ NormalKeyR
    \/ NormalKeyD
    \/ \E op \in MoveCursorOperation : NormalArrow(op)
    \/ \E k \in NormalUnbound : NormalOther(k)
    \/ EditEnter
    \/ \E c \in Chars : EditChar(c)
    \/ EditBackspace
    \/ EditEsc
    \/ \E op \in MoveCursorOperation : EditArrow(op)
    \/ \E k \in EditingUnbound : EditOther(k)

Spec == Init /\ [][Next]_vars

(* ---------------------------- longer lists ----------------------------- *)

RowsEnter == EditEnterUpTo(RowsMaxEntries)
RowsChar(c) == EditCharUpTo(c, RowsMaxBytes)

\* run_app as in Next, under the limits RowsMaxBytes and RowsMaxEntries
RowsNext ==
    \/ NormalKeyE
    \/ NormalKeyQ
    \/ NormalKeyT
    \/ NormalKeyR
    \/ NormalKeyD
    \/ \E op \in MoveCursorOperation : NormalArrow(op)
    \/ \E k \in NormalUnbound : NormalOther(k)
    \/ RowsEnter
    \/ \E c \in Chars : RowsChar(c)
    \/ EditBackspace
    \/ EditEsc
    \/ \E op \in MoveCursorOperation : EditArrow(op)
    \/ \E k \in EditingUnbound : EditOther(k)

SpecRows == Init /\ [][RowsNext]_vars

(* ---------------------------- longer texts ----------------------------- *)

\* SpecText: single-byte letters only, one bound in Normal mode and one not
TextChars == {"t", "x"}

\* SpecText: most text bytes and most entries, as MaxBytes and MaxEntries
TextMaxBytes == 3
TextMaxEntries == 3

TextEnter == EditEnterUpTo(TextMaxEntries)
TextChar(c) == EditCharUpTo(c, TextMaxBytes)

\* run_app as in Next, typing TextChars under the limits TextMaxBytes and
\* TextMaxEntries
TextNext ==
    \/ NormalKeyE
    \/ NormalKeyQ
    \/ NormalKeyT
    \/ NormalKeyR
    \/ NormalKeyD
    \/ \E op \in MoveCursorOperation : NormalArrow(op)
    \/ \E k \in NormalUnbound : NormalOther(k)
    \/ TextEnter
    \/ \E c \in TextChars : TextChar(c)
    \/ EditBackspace
    \/ EditEsc
    \/ \E op \in MoveCursorOperation : EditArrow(op)
    \/ \E k \in EditingUnbound : EditOther(k)

SpecText == Init /\ [][TextNext]_vars

(* ---------------------------- Scenario 1 ------------------------------- *)

\* the letters typed in the scenario: the command letters of Normal mode
ScenarioChars == {"e", "q", "t", "r", "d"}

\* longest string typed in the scenario
MaxTyped == 3

RECURSIVE Utf8Str(_)
\* the bytes of a string given as its sequence of chars
Utf8Str(cs) == IF cs = <<>> THEN <<>> ELSE Utf8(Head(cs)) \o Utf8Str(Tail(cs))

\* the enter-edit key as the first event of the session
ScenarioEnterEdit == key = NoKey /\ NormalKeyE

\* KeyCode::Char(c) in Editing mode, remembering what was typed
ScenarioType(c) ==
    /\ Editing
    /\ Len(typed) < MaxTyped
    /\ typed' = Append(typed, c)
    /\ UNCHANGED boot
    /\ StepApp(Char(c), add_char(App, c))

ScenarioNext ==
    \/ ScenarioEnterEdit
    \/ \E c \in ScenarioChars : ScenarioType(c)
    \/ EditEnter

SpecScenario == Init /\ [][ScenarioNext]_vars

(* ---------------------------- double switch ---------------------------- *)

\* what a recorded switch remembers of the state it starts from
Snapshot == <<target_mode, messages, long_term_todo, target_row>>

\* KeyCode::Char('t') in Normal mode, remembering the state before it; at
\* most two switches in a row are recorded
SwitchKey ==
    /\ Normal
    /\ Len(typed) < 2
    /\ typed' = Append(typed, Snapshot)
    /\ UNCHANGED boot
    /\ StepApp(Char("t"), change_target_mode(App))

\* any session of Next, followed by two recorded switches
SwitchNext ==
    \/ typed = <<>> /\ Next
    \/ SwitchKey

SpecSwitch == Init /\ [][SwitchNext]_vars

(* ---------------------------- startup --------------------------------- *)

\* the App fields, which main creates only after the load (App::default)
AppVars == <<input, input_mode, target_mode, messages, long_term_todo,
             target_row, target_column>>

\* main before file_manager.initialize(): the App fields already hold the
\* values App::default will give them
StartupInit ==
    /\ input = <<>>
    /\ input_mode = "Normal"
    /\ target_mode = "Daily"
    /\ messages = <<TodoDataDefault>>
    /\ long_term_todo = <<TodoDataDefault>>
    /\ target_row = 0
    /\ target_column = 0
    /\ key = NoKey
    /\ typed = <<>>
    /\ run = "starting"
    /\ boot = "start"

\* one step of main before run_app: boot goes from `from` to `to`, or the
\* step panics
BootStep(from, to, panics) ==
    /\ run = "starting"
    /\ boot = from
    /\ IF panics
       THEN run' = "panicked" /\ UNCHANGED boot
       ELSE boot' = to /\ UNCHANGED run
    /\ UNCHANGED <<AppVars, key, typed>>

\* fs::read_dir("./data").unwrap(): the directory is listed, or the unwrap
\* of the error panics
ReadDir(ok) == BootStep("start", "listed", ~ok)

\* the loop printing each entry's name; path.unwrap() panics on an entry
\* that cannot be read
PrintNames(ok) == BootStep("listed", "named", ~ok)

\* File::open: Ok is logged and kept; Err is logged and load_files returns
OpenFile(ok) == BootStep("named", IF ok THEN "opened" ELSE "load_failed", FALSE)

\* file_open_result.read_to_string(&mut contents).unwrap(), then the
\* contents are printed
ReadFile(ok) == BootStep("opened", "loaded", ~ok)

\* enable_raw_mode()?, execute!(...)?, Terminal::new(backend)?, then
\* App::default() and run_app; an error makes main return it
SetupTerminal(ok) ==
    /\ run = "starting"
    /\ boot \in {"loaded", "load_failed"}
    /\ IF ok
       THEN run' = "running" /\ boot' = "session"
       ELSE run' = "setup_error" /\ UNCHANGED boot
    /\ UNCHANGED <<AppVars, key, typed>>

StartupNext ==
    \/ \E ok \in BOOLEAN : ReadDir(ok)
    \/ \E ok \in BOOLEAN : PrintNames(ok)
    \/ \E ok \in BOOLEAN : OpenFile(ok)
    \/ \E ok \in BOOLEAN : ReadFile(ok)
    \/ \E ok \in BOOLEAN : SetupTerminal(ok)
    \/ Next

SpecStartup == StartupInit /\ [][StartupNext]_vars

(* ---------------------------- claims ----------------------------------- *)

ActiveList == get_messages(App)
InactiveList == IF target_mode = "Daily" THEN long_term_todo ELSE messages
ActiveListNext == IF target_mode' = "Daily" THEN messages' ELSE long_term_todo'
ArrowKeys == {Key(op) : op \in MoveCursorOperation}

\* C1: in every reachable state both the daily list and the long-term list
\* hold at least one entry.
C1_ListsNeverEmpty == Len(messages) >= 1 /\ Len(long_term_todo) >= 1

\* the delete-entry key has just emptied and refilled the active list
C1_Witness ==
    /\ run = "running" /\ key = Char("r")
    /\ ActiveList = <<TodoDataDefault>> /\ Len(InactiveList) >= 2

\* C2: in every reachable state the cursor row is a valid index into the
\* active list.
C2_RowInRange == 0 <= target_row /\ target_row < Len(ActiveList)

\* the delete-entry key has just removed one of two entries and left the
\* row on the entry that remains
C2_Witness ==
    /\ run = "running" /\ key = Char("r")
    /\ Len(ActiveList) = 1 /\ ActiveList # <<TodoDataDefault>>

\* C3: in every reachable state the cursor column is a byte offset into the
\* text of the active entry at the cursor row, 0 <= column <= len(text).
C3_ColumnWithinText ==
    /\ InRange(ActiveList, target_row)
    /\ 0 <= target_column
    /\ target_column <= Len(get_current_message(App))

\* C4 as stated: in every reachable state, character insertion included,
\* 0 <= column <= max(len(text) - 1, 0).
C4_ColumnWithinClampBound ==
    /\ InRange(ActiveList, target_row)
    /\ 0 <= target_column
    /\ target_column <= Max(Len(get_current_message(App)) - 1, 0)

\* C4 as amended: the column is never negative, and right after an arrow key
\* (either mode) or the delete-entry key it is within the clamp bound
\* 0 <= column <= max(len(text) - 1, 0).
C4_ClampBoundAfterMove ==
    /\ 0 <= target_column
    /\ (run = "running" /\ key \in ArrowKeys \cup {Char("r")}
            => C4_ColumnWithinClampBound)

\* the Right key has just moved the column to the last byte of a two-byte text
C4_Witness ==
    /\ run = "running" /\ key = Key("Right")
    /\ target_column = 1 /\ Len(input) = 2

\* C5: no sequence of key events aborts the process.
C5_NoAbort == run # "panicked"

\* C6: in every reachable state the edit buffer equals the text of the
\* active entry at the cursor row.
C6_BufferInSync ==
    InRange(ActiveList, target_row) /\ input = get_current_message(App)

\* the switch-list key has just loaded a non-empty text into the buffer
C6_Witness ==
    /\ run = "running" /\ key = Char("t") /\ input_mode = "Normal"
    /\ input # <<>> /\ input # InactiveList[1].message

\* C7: every key event leaves the list that is inactive when the event
\* arrives unchanged.
C7_InactiveListUnchanged ==
    [][/\ target_mode = "Daily" => long_term_todo' = long_term_todo
       /\ target_mode = "LongTerm" => messages' = messages]_vars

\* a key that edits has just acted on the long-term list while the daily
\* list holds text
C7_Witness ==
    /\ run = "running" /\ target_mode = "LongTerm"
    /\ key \in {Char("r"), Char("d"), Key("Enter")}
    /\ SumLen(messages) > 0 /\ long_term_todo # <<TodoDataDefault>>

\* C8: the delete-entry key at row r of an active list of length n removes
\* exactly the entry at r and keeps the others in order; a list of one entry
\* becomes one fresh entry; afterwards row = max(r - 1, 0) and the column is
\* clamped to the new current entry.
C8_DeleteEntry ==
    [][(Normal /\ key' = Char("r")) =>
         LET l == ActiveList
             n == Len(l)
             r == target_row
             l2 == ActiveListNext
             hi == Max(Len(l2[target_row' + 1].message) - 1, 0)
         IN /\ run' = "running"
            /\ target_mode' = target_mode
            /\ IF n = 1
               THEN l2 = <<[message |-> <<>>, status |-> "Todo"]>>
               ELSE /\ Len(l2) = n - 1
                    /\ \A i \in 1..(n - 1) : l2[i] = IF i <= r THEN l[i] ELSE l[i + 1]
            /\ target_row' = Max(r - 1, 0)
            /\ target_column' = IF target_column > hi THEN hi ELSE target_column
      ]_vars

\* the delete-entry key has just removed one of three entries, leaving two
\* entries that differ
C8_Witness ==
    /\ run = "running" /\ key = Char("r")
    /\ Len(ActiveList) = 2 /\ ActiveList[1] # ActiveList[2]
    /\ ActiveList[2] # TodoDataDefault

\* C9: from the initial state, the enter-edit key, a string s of single-byte
\* characters and Enter give daily = [s, ""], row 1, column 0, an empty edit
\* buffer, mode Normal and the long-term list unchanged.
C9_Scenario1 ==
    key = Key("Enter") =>
        /\ run = "running"
        /\ messages = <<[message |-> Utf8Str(typed), status |-> "Todo"],
                        [message |-> <<>>, status |-> "Todo"]>>
        /\ target_row = 1
        /\ target_column = 0
        /\ input = <<>>
        /\ input_mode = "Normal"
        /\ target_mode = "Daily"
        /\ long_term_todo = <<[message |-> <<>>, status |-> "Todo"]>>

\* Enter has just committed a typed string of different letters
C9_Witness ==
    /\ key = Key("Enter") /\ Len(typed) >= 2 /\ typed[1] # typed[2]
    /\ "t" \in {typed[i] : i \in 1..Len(typed)}

\* C10: the set-done key sets the status of the active entry at the cursor
\* row to Done and changes nothing else.
C10_SetDone ==
    [][(Normal /\ key' = Char("d")) =>
         LET l == ActiveList
             l2 == ActiveListNext
         IN /\ run' = "running"
            /\ Len(l2) = Len(l)
            /\ \A i \in 1..Len(l) :
                  /\ l2[i].message = l[i].message
                  /\ l2[i].status = IF i = target_row + 1 THEN "Done" ELSE l[i].status
            /\ InactiveList' = InactiveList
            /\ UNCHANGED <<input, input_mode, target_mode, target_row, target_column>>
      ]_vars

\* the set-done key has just marked an entry below the first, next to an
\* entry that is still Todo
C10_Witness ==
    /\ run = "running" /\ key = Char("d")
    /\ target_row >= 1 /\ ActiveList[target_row + 1].status = "Done"
    /\ ActiveList[1].status = "Todo"

\* C11: the switch-list key toggles the selector, sets the row to 0 and
\* reloads the edit buffer from the first entry of the newly active list;
\* two consecutive switches restore the selector, leave both lists unchanged
\* and end with row 0.
C11_SwitchList ==
    [][(Normal /\ key' = Char("t")) =>
         /\ run' = "running"
         /\ target_mode' # target_mode
         /\ target_mode' \in {"Daily", "LongTerm"}
         /\ target_row' = 0
         /\ input' = InactiveList[1].message
         /\ UNCHANGED <<messages, long_term_todo, input_mode>>
         /\ (Len(typed') = 2 =>
               /\ target_mode' = typed'[1][1]
               /\ messages' = typed'[1][2]
               /\ long_term_todo' = typed'[1][3]
               /\ target_row' = 0)
      ]_vars

\* two switches in a row have just ended on row 0, having started on a
\* lower row of a list that holds text
C11_Witness ==
    /\ run = "running" /\ key = Char("t") /\ Len(typed) = 2
    /\ typed[1][4] >= 1 /\ target_row = 0
    /\ target_mode = typed[1][1] /\ SumLen(ActiveList) > 0

\* C12 as stated: the switch-list key 't' in Editing mode is a no-op: the
\* selector, the lists, the cursor, the edit buffer and the mode are as before.
C12_SwitchKeyNoOpInEditing ==
    [][(Editing /\ key' = Char("t")) =>
         UNCHANGED <<target_mode, messages, long_term_todo, target_row,
                     target_column, input, input_mode>>
      ]_vars

\* C12 as amended: 't' in Editing mode does not switch lists (selector, row,
\* mode and inactive list stay) but is typed: unless the insertion aborts the
\* process, the byte 't' is inserted into the active entry's text and the
\* buffer at offset column, and the column advances by 1.
C12_SwitchKeyIsTypedInEditing ==
    [][(Editing /\ key' = Char("t")) =>
         /\ UNCHANGED <<target_mode, target_row, input_mode>>
         /\ InactiveList' = InactiveList
         /\ run' = "running" =>
               LET old == get_current_message(App)
                   new == ActiveListNext[target_row + 1].message
               IN /\ Len(new) = Len(old) + 1
                  /\ new[target_column + 1] = "t"
                  /\ SubSeq(new, 1, target_column) = SubSeq(old, 1, target_column)
                  /\ SubSeq(new, target_column + 2, Len(new))
                        = SubSeq(old, target_column + 1, Len(old))
                  /\ input' = new
                  /\ target_column' = target_column + 1
         /\ run' = "panicked" =>
               UNCHANGED <<messages, long_term_todo, input, target_column>>
      ]_vars

\* 't' has just been typed into an entry of the long-term list that already
\* held a byte
C12_Witness ==
    /\ run = "running" /\ key = Char("t") /\ input_mode = "Editing"
    /\ target_mode = "LongTerm" /\ Len(input) = 2 /\ input[target_column] = "t"

\* C13: a failure of the startup file load (the directory cannot be listed,
\* the file cannot be opened, its contents cannot be read) is only logged and
\* abandons the load step: the process is never aborted during the load.
C13_LoadFailureNotFatal == ~(run = "panicked" /\ boot # "session")

\* C14: Enter in Editing mode on the last entry of the active list appends
\* exactly one empty Todo entry, moves the row down by 1 and sets the column
\* to 0; on an earlier entry it leaves the active list and the row as they
\* are; in both cases the mode becomes Normal and the edit buffer is the text
\* of the entry now at the row.
C14_CommitLine ==
    [][(Editing /\ key' = Key("Enter")) =>
         LET l == ActiveList
             l2 == ActiveListNext
         IN /\ run' = "running"
            /\ target_mode' = target_mode
            /\ IF target_row = Len(l) - 1
               THEN /\ Len(l2) = Len(l) + 1
                    /\ \A i \in 1..Len(l) : l2[i] = l[i]
                    /\ l2[Len(l2)] = [message |-> <<>>, status |-> "Todo"]
                    /\ target_row' = target_row + 1
                    /\ target_column' = 0
               ELSE /\ l2 = l
                    /\ target_row' = target_row
            /\ input_mode' = "Normal"
            /\ input' = l2[target_row' + 1].message
      ]_vars

\* Enter has just committed an edit of an entry that is not the last one
C14_Witness ==
    /\ run = "running" /\ key = Key("Enter") /\ input_mode = "Normal"
    /\ target_row < Len(ActiveList) - 1 /\ input # <<>>
    /\ target_column = Len(input)

\* C15: in every reachable state in Editing mode a Character(c) event turns
\* the active entry's text at the row into the old text with c inserted at
\* byte offset column, sets the edit buffer to that text and advances the
\* column by exactly 1; the row, the mode, the selector, the entry's status
\* and every other entry are unchanged.
C15_InsertChar ==
    [][\A c \in Chars \cup TextChars :
         (Editing /\ key' = Char(c)) =>
           LET old == get_current_message(App)
               new == SubSeq(old, 1, target_column) \o Utf8(c)
                        \o SubSeq(old, target_column + 1, Len(old))
           IN /\ run' = "running"
              /\ ActiveListNext = [ActiveList EXCEPT ![target_row + 1].message = new]
              /\ input' = new
              /\ target_column' = target_column + 1
              /\ InactiveList' = InactiveList
              /\ UNCHANGED <<target_row, input_mode, target_mode>>
      ]_vars

\* C16: in every reachable state in Editing mode Backspace is a no-op when
\* the edit buffer is empty or column <= 0; otherwise it removes exactly the
\* byte at offset column - 1 from the active entry's text, writes the result
\* to both the buffer and the entry, and decreases the column by exactly 1.
C16_DeleteChar ==
    [][(Editing /\ key' = Key("Backspace")) =>
         IF input = <<>> \/ target_column <= 0
         THEN UNCHANGED <<AppVars, run>>
         ELSE LET old == get_current_message(App)
                  new == SubSeq(old, 1, target_column - 1)
                           \o SubSeq(old, target_column + 1, Len(old))
              IN /\ run' = "running"
                 /\ ActiveListNext = [ActiveList EXCEPT ![target_row + 1].message = new]
                 /\ input' = new
                 /\ target_column' = target_column - 1
      ]_vars

\* the largest column clamp_column allows on the entry at the cursor row
ColumnBound == Max(Len(get_current_message(App)) - 1, 0)

\* the arrow key just read asks for a move past the edge of the list or of
\* the text
AtBoundary ==
    \/ key' = Key("Up") /\ target_row = 0
    \/ key' = Key("Down") /\ target_row = Len(ActiveList) - 1
    \/ key' = Key("Left") /\ target_column = 0
    \/ key' = Key("Right") /\ target_column >= ColumnBound

\* C17: an Up event at row 0, a Down event at the last row, a Left event at
\* column 0 and a Right event at or beyond max(len(text) - 1, 0) leave the
\* whole state unchanged.
C17_BoundaryNoOp ==
    [][AtBoundary => UNCHANGED <<AppVars, run>>]_vars

\* C17 as the code has it: a move at a boundary keeps the row, the buffer,
\* the lists, the mode and the selector, and clamps the column into
\* 0 .. max(len(text) - 1, 0); the column is kept only when it was within
\* that range.
C17_BoundaryClampsColumn ==
    [][AtBoundary =>
         /\ UNCHANGED <<input, input_mode, target_mode, messages,
                        long_term_todo, target_row, run>>
         /\ target_column' = clamp(target_column, 0, ColumnBound)
      ]_vars

\* a Down event has been handled on a list of one entry with text
C17_Witness ==
    /\ run = "running" /\ key = Key("Down")
    /\ Len(ActiveList) = 1 /\ input # <<>>

\* C18: no event handled in Normal mode changes the text of an entry that
\* stays in its list: the inactive list is kept, and the active list is
\* kept, or gets the status of the entry at the row set, or loses the entry
\* at the row (a list of one entry becoming one fresh entry); a key that is
\* no command in Normal mode changes nothing.
C18_TextOnlyEditedInEditing ==
    [][Normal =>
         LET l == ActiveList
             l2 == ActiveListNext
             r == target_row + 1
         IN /\ target_mode' = target_mode => InactiveList' = InactiveList
            /\ target_mode' # target_mode =>
                  /\ messages' = messages
                  /\ long_term_todo' = long_term_todo
            /\ target_mode' = target_mode =>
                  \/ l2 = l
                  \/ l2 = [l EXCEPT ![r].status = "Done"]
                  \/ Len(l) = 1 /\ l2 = <<TodoDataDefault>>
                  \/ Len(l) > 1 /\ l2 = SubSeq(l, 1, r - 1) \o SubSeq(l, r + 1, Len(l))
            /\ key' \in NormalUnbound => UNCHANGED <<AppVars, run>>
      ]_vars

\* the delete-entry key has just removed an entry and an entry with text
\* stays in the list
C18_Witness ==
    /\ run = "running" /\ input_mode = "Normal" /\ key = Char("r")
    /\ SumLen(ActiveList) > 0

\* C19: the mode starts as Normal; it changes from Normal to Editing exactly
\* on the key 'e' and from Editing to Normal exactly on Enter and Escape, so
\* every other key (arrows, characters, Backspace, switch-list, delete-entry,
\* set-done) keeps the mode; Escape changes nothing but the mode.
C19_ModeTransitions ==
    /\ input_mode = "Normal"
    /\ [][/\ input_mode \in {"Normal", "Editing"}
          /\ input_mode = "Normal" =>
                (input_mode' = "Editing" <=> key' = Char("e"))
          /\ input_mode = "Editing" =>
                (input_mode' = "Normal" <=> key' \in {Key("Enter"), Key("Esc")})
          /\ (input_mode = "Editing" /\ key' = Key("Esc")) =>
                UNCHANGED <<input, target_mode, messages, long_term_todo,
                            target_row, target_column, run>>
        ]_vars

\* Escape has just ended an edit that left text and an advanced cursor
C19_Witness ==
    /\ run = "running" /\ key = Key("Esc") /\ input_mode = "Normal"
    /\ input # <<>> /\ target_column > 0

\* C20: an entry that is Done stays Done for as long as it is in its list:
\* on every step but a removal each list keeps its entries in place, Done
\* ones still Done, and any entry added at the end is empty and Todo; the
\* delete-entry key takes out the entry at the row, the entries after it
\* moving up one place with Done ones still Done, and a list emptied by it
\* holds one new entry, empty and Todo.
C20_DoneStaysDone ==
    [][LET Removal == Normal /\ key' = Char("r")
           r == target_row + 1
           Kept(l, l2) ==
               /\ Len(l2) >= Len(l)
               /\ \A i \in 1..Len(l) : l[i].status = "Done" => l2[i].status = "Done"
               /\ \A i \in (Len(l) + 1)..Len(l2) : l2[i] = TodoDataDefault
           Removed(l, l2) ==
               IF Len(l) = 1 THEN l2 = <<TodoDataDefault>>
               ELSE /\ Len(l2) = Len(l) - 1
                    /\ \A i \in 1..Len(l2) :
                          LET old == IF i < r THEN l[i] ELSE l[i + 1]
                          IN old.status = "Done" => l2[i].status = "Done"
       IN IF Removal
          THEN /\ target_mode' = target_mode
               /\ Removed(ActiveList, ActiveListNext)
               /\ Kept(InactiveList, InactiveList')
          ELSE /\ Kept(messages, messages')
               /\ Kept(long_term_todo, long_term_todo')
      ]_vars

\* a character has just been typed into an entry that is Done
C20_Witness ==
    /\ run = "running" /\ input_mode = "Editing" /\ key = Char("t")
    /\ input # <<>>
    /\ target_row < Len(ActiveList)
    /\ ActiveList[target_row + 1].status = "Done"

====
